---- MODULE Spec2Model ----
(***************************************************************************)
(* A model of the workflow engine's runtime (src/workflow.go) and builder  *)
(* (src/builder.go).                                                       *)
(*                                                                         *)
(* Spec      : engine replicas, each a Workflow value with its own root    *)
(*             context, sync.Once and internal-state map, running          *)
(*             Workflow.Run, Workflow.run (the role-leased loop) and       *)
(*             Workflow.Stop against one shared role scheduler.            *)
(* UpdateSpec: update (the store write with its publish continuation) as   *)
(*             called by a step processor, against a record store and an   *)
(*             event streamer that can fail.                               *)
(* BuilderSpec: the calls made on a Builder before Build.                  *)
(* FairSpec  : the same actions with weak fairness on the goroutine steps, *)
(*             on the configurations of at most MaxFairProcs processors.   *)
(* UntimedFairSpec: FairSpec without fairness on the expiry of timers.     *)
(***************************************************************************)
EXTENDS Integers, Sequences, FiniteSets, TLC

\* ------------------------------------------------------------------ bounds
MaxReplicas == 2        \* engine replicas sharing the role scheduler
MaxParallel == 2        \* largest ParallelCount a consumer is configured with
MaxProcs    == 2        \* processors alive over all replicas
MaxRunCalls == 2        \* calls of Run over all replicas
MaxFairProcs == 1       \* processors alive over all replicas under FairSpec
MaxWrites   == 3        \* writes the record store is asked for (UpdateSpec)
MaxBuilderCalls == 3    \* calls made on one builder (BuilderSpec)
LastStatus  == 3        \* the workflows of UpdateSpec have statuses 1..LastStatus

\* The statuses of the modelled workflow.
Statuses == {1}

\* State values of a process (type State; reported through updateState).
StateUnknown  == "Unknown"
StateIdle     == "Idle"
StateRunning  == "Running"
StateShutdown == "Shutdown"

VARIABLES
    replicas,       \* the engine replicas (each one Workflow value)
    consumers,      \* w.consumers (same build on every replica): status -> the slice of
                    \* consumerConfig that Run ranges over (workflow.go, line 71); in
                    \* BuilderSpec status -> the consumerConfig AddStep stored (builder.go)
    timeouts,       \* w.timeouts: status -> timeouts, for the statuses that have some
    ctx,            \* per replica, w.ctx/w.cancel: "nil", "live" or "cancelled"
    ctxSets,        \* per replica, how many times w.ctx and w.cancel were assigned
    once,           \* per replica, w.once has run its function (w.calledRun is set with it)
    runCalls,       \* calls of Run made so far, over all replicas
    launches,       \* per replica, processor -> number of goroutines started for it
    pc,             \* per replica, goroutine -> its position in run
    seen,           \* per replica, connector goroutine -> the name of the configuration
                    \* it read through the &config it was started with
    internalState,  \* per replica, w.internalState: process name -> State
    leases,         \* the scheduler's live leases: set of <<role, replica>>
    stopPc,         \* per replica, position of the caller of Stop
    stopReturned,   \* per replica, a Stop that cancelled the context has returned
    stoppedEarly,   \* per replica, Stop was called before Run had set w.cancel, and
                    \* Run has not been called since
    ranAfterStop,   \* per replica, Run was called after a Stop that cancelled w.ctx
                    \* had returned
    retrying,       \* per replica, the processors whose last process call returned a
                    \* cancellation error and whose loop has not passed line 151 since
    \* ---- update and the step processor that calls it (UpdateSpec)
    records,        \* the record store: run id -> the committed wire record
    nextID,         \* the identifier the store assigns to its next write
    events,         \* the event streamer: the events sent so far, in order
    producers,      \* the producers update has created: <<NewProducer calls, Close calls>>
    pending,        \* the deliveries the streamer still owes: <<run id, status>> not acknowledged
    acks,           \* the acknowledgements made: [run, status, id], id the write's or 0
    upc,            \* position of the step processor / update / store / continuation
    cur,            \* the delivery being processed: <<run id, status>>
    wr,             \* the *WireRecord handed to update
    err,            \* the error value in hand (FALSE is nil)
    failed,         \* the call that failed in the continuation's current run: "", "send" or "close"
    \* ---- the builder (BuilderSpec); it also writes consumers and timeouts
    callback,       \* w.callback: status -> the callbacks added, in order
    statusGraph,    \* w.statusGraph: the transitions added, <<from, to>>
    connectorConfigs, \* w.connectorConfigs: the connector configurations, in order
    workflowConnectorConfigs, \* w.workflowConnectorConfigs, in order
    deps,           \* w.eventStreamer, w.recordStore, w.scheduler, w.timeoutStore: set (TRUE) or nil
    built,          \* Build: "no" (not called), "panicked" or "returned"
    log             \* the builder calls made so far, each with whether it panicked

upVars == <<records, nextID, events, producers, pending, acks, upc, cur, wr, err, failed>>

rtVars == <<ctx, ctxSets, once, runCalls, launches, pc, seen, internalState, leases,
            stopPc, stopReturned, stoppedEarly, ranAfterStop, retrying>>

bVars == <<callback, statusGraph, connectorConfigs, workflowConnectorConfigs, deps, built, log>>

vars == <<replicas, consumers, timeouts, rtVars, upVars, bVars>>

cfgVars == <<replicas, consumers, timeouts, upVars, bVars>>

\* ------------------------------------------------------- configuration
\* A processor is <<kind, key, shard, of>>: the key is the status of a consumer
\* or of a timeout goroutine and the name of a connector.  A goroutine is
\* <<kind, key, shard, of, copy>>: the copy tells apart the goroutines that go
\* statements with equal arguments started.  The role (and process name) a
\* goroutine asks the scheduler for is built from its processor, so two
\* goroutines ask for the same role exactly when their processors are equal.
Role(g) == <<g[1], g[2], g[3], g[4]>>

\* ConsumerShards with the shard loop stopping one short (i < ParallelCount).
ConsumerShards_StopsShort(s, n) ==
    IF n < 2
    THEN << <<"consumer", s, 1, 1>> >>
    ELSE [i \in 1..(n - 1) |-> <<"consumer", s, i, n>>]

\* Run, lines 102-110: the goroutines started for one consumer of status s
\* with ParallelCount n, in the order the go statements run.
ConsumerShards(s, n) ==
    IF n < 2
    THEN << <<"consumer", s, 1, 1>> >>
    ELSE [i \in 1..n |-> <<"consumer", s, i, n>>]

\* Run, lines 114-117: the two goroutines started for a status with timeouts.
TimeoutProcs(s) ==
    << <<"timeoutPoller", s, 1, 1>>, <<"timeoutInserter", s, 1, 1>> >>

\* Run, lines 120-128 (kind "workflowConnector") and 132-140 (kind
\* "connector"): the goroutines started for one connector configuration.
ConnectorShards(kind, name, n) ==
    IF n < 2
    THEN << <<kind, name, 1, 1>> >>
    ELSE [i \in 1..n |-> <<kind, name, i, n>>]

SeqRange(q) == {q[i] : i \in DOMAIN q}
Occurrences(q, p) == Cardinality({i \in DOMAIN q : q[i] = p})

\* Run, lines 100-141: every go statement of one execution of the once-function,
\* as processor -> number of goroutines started for it.  cons maps a status to
\* its slice of consumer configurations, touts a status to its timeouts;
\* wconns and conns are the slices of connector configurations.
GoStatements(cons, touts, wconns, conns) ==
    LET connectors(kind, cfgs) ==
            UNION {SeqRange(ConnectorShards(kind, cfgs[j].name, cfgs[j].parallelCount)) :
                     j \in DOMAIN cfgs}
        stepConsumers ==
            UNION {UNION {SeqRange(ConsumerShards(s, cons[s][i].ParallelCount)) :
                            i \in DOMAIN cons[s]} : s \in DOMAIN cons}
        consumerCount(p) ==
            Cardinality({i \in DOMAIN cons[p[2]] :
                            p \in SeqRange(ConsumerShards(p[2], cons[p[2]][i].ParallelCount))})
        connectorCount(cfgs, p) ==
            Cardinality({j \in DOMAIN cfgs :
                            p \in SeqRange(ConnectorShards(p[1], cfgs[j].name, cfgs[j].parallelCount))})
        count(p) ==
            CASE p[1] = "consumer" -> IF p[2] \in DOMAIN cons THEN consumerCount(p) ELSE 0
              [] p[1] = "workflowConnector" -> connectorCount(wconns, p)
              [] p[1] = "connector" -> connectorCount(conns, p)
              [] OTHER -> IF p[2] \in DOMAIN touts THEN Occurrences(TimeoutProcs(p[2]), p) ELSE 0
        all == stepConsumers
                 \cup UNION {SeqRange(TimeoutProcs(s)) : s \in DOMAIN touts}
                 \cup connectors("workflowConnector", wconns)
                 \cup connectors("connector", conns)
    IN [p \in all |-> count(p)]

\* Nothing runs: no replica exists (the values the runtime's variables keep
\* while the builder or update alone is modelled).
RuntimeParked ==
    /\ replicas = {}
    /\ ctx = << >>
    /\ ctxSets = << >>
    /\ once = << >>
    /\ runCalls = 0
    /\ launches = << >>
    /\ pc = << >>
    /\ seen = << >>
    /\ internalState = << >>
    /\ leases = {}
    /\ stopPc = << >>
    /\ stopReturned = << >>
    /\ retrying = << >>
    /\ stoppedEarly = << >>
    /\ ranAfterStop = << >>

\* The zero value of struct timeouts (the value of b.workflow.timeouts[from]
\* for a status without an entry, line 114).
ZeroTimeouts ==
    [transitions |-> << >>, pollingFrequency |-> 0, errBackOff |-> 0,
     lagAlert |-> 0, pauseAfterErrCount |-> 0]

\* The dependencies of a Workflow value before Build: all nil.
NoDeps ==
    [eventStreamer |-> FALSE, recordStore |-> FALSE, scheduler |-> FALSE,
     timeoutStore |-> FALSE]

\* The builder's own fields as NewBuilder leaves them (lines 25-43).
BuilderParked ==
    /\ callback = << >>
    /\ statusGraph = {}
    /\ connectorConfigs = << >>
    /\ workflowConnectorConfigs = << >>
    /\ deps = NoDeps
    /\ built = "no"
    /\ log = << >>

\* ------------------------------------------------- update: data and Init
WorkflowName == "wf"
RunIDs == {"run1", "run2"}
ForeignIDOf(run) == IF run = "run1" THEN "fid1" ELSE "fid2"

\* The Header names update sets (lines 241-244).
HeaderWorkflowForeignID == "workflow-foreign-id"
HeaderWorkflowName      == "workflow-name"
HeaderTopic             == "topic"
HeaderRunID             == "run-id"

\* Topic (called at line 238): "<workflow_name>-<status_int>".
Topic(name, status) == name \o "-" \o ToString(status)

NoRecord == [RunID |-> "", WorkflowName |-> "", ForeignID |-> "", Status |-> 0, ID |-> 0]

\* No update is in progress and nothing is stored: the values these variables
\* keep while the runtime alone is modelled.
UpdateParked ==
    /\ records = << >>
    /\ nextID = 1
    /\ events = << >>
    /\ producers = <<0, 0>>
    /\ pending = {}
    /\ acks = {}
    /\ upc = "idle"
    /\ cur = <<"", 0>>
    /\ wr = NoRecord
    /\ err = FALSE
    /\ failed = ""

\* Some runs have been triggered at status 1: their records are stored and
\* their first events are owed to the step processor of status 1.
UpdateInit ==
    /\ \E runs \in SUBSET RunIDs :
          /\ runs # {}
          /\ records = [run \in runs |->
                [RunID |-> run, WorkflowName |-> WorkflowName,
                 ForeignID |-> ForeignIDOf(run), Status |-> 1, ID |-> 0]]
          /\ pending = {<<run, 1>> : run \in runs}
    /\ nextID = 1
    /\ events = << >>
    /\ producers = <<0, 0>>
    /\ acks = {}
    /\ upc = "idle"
    /\ cur = <<"", 0>>
    /\ wr = NoRecord
    /\ err = FALSE
    /\ failed = ""
    /\ consumers = << >>
    /\ timeouts = << >>
    /\ RuntimeParked
    /\ BuilderParked

upFrame == <<replicas, consumers, timeouts, rtVars, bVars>>

\* ------------------------------------------------- the step processor
\* The step processor of status cur[2] acknowledges the delivery in hand.
Ack(id) ==
    /\ acks' = acks \cup {[run |-> cur[1], status |-> cur[2], id |-> id]}
    /\ pending' = pending \ {cur}

\* A delivery whose record has moved on (or whose handler returns done = false)
\* is acknowledged and skipped.
ProcessorSkips(d) ==
    /\ upc = "idle"
    /\ d \in pending
    /\ acks' = acks \cup {[run |-> d[1], status |-> d[2], id |-> 0]}
    /\ pending' = pending \ {d}
    /\ UNCHANGED <<records, nextID, events, producers, upc, cur, wr, err, failed, upFrame>>

\* A delivery for a record that is at the processor's status: the handler
\* returns the next status and the processor calls update with the advanced
\* record.
ProcessorAdvances(d) ==
    /\ upc = "idle"
    /\ d \in pending
    /\ records[d[1]].Status = d[2]
    /\ d[2] < LastStatus
    /\ cur' = d
    /\ wr' = [records[d[1]] EXCEPT !.Status = d[2] + 1]
    /\ upc' = "update"
    /\ UNCHANGED <<records, nextID, events, producers, pending, acks, err, failed, upFrame>>

\* ---------------------------------------------------------------- update
\* EventHeaders with the workflow name stored under the topic header.
EventHeaders_TopicIsName(w, topic) ==
    (HeaderWorkflowForeignID :> w.ForeignID) @@ (HeaderWorkflowName :> w.WorkflowName)
        @@ (HeaderTopic :> w.WorkflowName) @@ (HeaderRunID :> w.RunID)

\* The headers of the event (lines 240-244).
EventHeaders(w, topic) ==
    (HeaderWorkflowForeignID :> w.ForeignID) @@ (HeaderWorkflowName :> w.WorkflowName)
        @@ (HeaderTopic :> topic) @@ (HeaderRunID :> w.RunID)

\* producer.Send(ctx, wr.ID, wr.Status, headers) on the producer of topic
\* (lines 246-247): the event as the streamer receives it.
SentEvent(w) ==
    LET topic == Topic(w.WorkflowName, w.Status)
    IN [topic |-> topic, id |-> w.ID, status |-> w.Status,
        headers |-> EventHeaders(w, topic)]

\* update dropping the result of store.Store and returning nil.
UpdateResult_Swallows(storeErr) == FALSE

\* What update returns (line 234): the result of store.Store.
UpdateResult(storeErr) == storeErr

\* The continuation returning nil whatever producer.Close returns.
CloseResult_Swallows(closeErr) == FALSE

\* What the continuation returns after Send succeeded (line 252): the result of
\* producer.Close.
CloseResult(closeErr) == closeErr

\* line 234: update calls store.Store; the store fails before it calls the
\* continuation.
StoreRefuses ==
    /\ upc = "update"
    /\ err' = UpdateResult(TRUE)
    /\ upc' = "updated"
    /\ UNCHANGED <<records, nextID, events, producers, pending, acks, cur, wr, failed, upFrame>>

\* lines 234-246: the store assigns the write its identifier and calls the
\* continuation, which sets wr.ID and creates the producer of the topic.
StoreCallsContinuation ==
    /\ upc = "update"
    /\ nextID <= MaxWrites
    /\ wr' = [wr EXCEPT !.ID = nextID]
    /\ nextID' = nextID + 1
    /\ producers' = <<producers[1] + 1, producers[2]>>
    /\ upc' = "send"
    /\ failed' = ""
    /\ UNCHANGED <<records, events, pending, acks, cur, err, upFrame>>

\* lines 247-250: Send fails; the continuation returns its error.
SendFails ==
    /\ upc = "send"
    /\ err' = TRUE
    /\ upc' = "continued"
    /\ failed' = "send"
    /\ UNCHANGED <<records, nextID, events, producers, pending, acks, cur, wr, upFrame>>

\* line 247: Send succeeds; the streamer has the event and owes its delivery.
SendSucceeds ==
    /\ upc = "send"
    /\ events' = Append(events, SentEvent(wr))
    /\ pending' = pending \cup {<<wr.RunID, wr.Status>>}
    /\ upc' = "close"
    /\ UNCHANGED <<records, nextID, producers, acks, cur, wr, err, failed, upFrame>>

\* line 252: the continuation returns the result of producer.Close.
Close(closeErr) ==
    /\ upc = "close"
    /\ producers' = <<producers[1], producers[2] + 1>>
    /\ err' = CloseResult(closeErr)
    /\ upc' = "continued"
    /\ failed' = IF closeErr THEN "close" ELSE ""
    /\ UNCHANGED <<records, nextID, events, pending, acks, cur, wr, upFrame>>

\* The store ends its write: it commits only when the continuation returned
\* nil, and its commit can itself fail; update returns the store's result.
StoreRollsBack ==
    /\ upc = "continued"
    /\ err' = UpdateResult(TRUE)
    /\ upc' = "updated"
    /\ UNCHANGED <<records, nextID, events, producers, pending, acks, cur, wr, failed, upFrame>>

StoreCommits ==
    /\ upc = "continued"
    /\ ~err
    /\ records' = [records EXCEPT ![wr.RunID] = wr]
    /\ err' = UpdateResult(FALSE)
    /\ upc' = "updated"
    /\ UNCHANGED <<nextID, events, producers, pending, acks, cur, wr, failed, upFrame>>

\* The step processor after update returned: it acknowledges the delivery when
\* update returned nil, and returns the error otherwise (the delivery stays
\* owed and is made again).
ProcessorFinishes ==
    /\ upc = "updated"
    /\ IF err THEN UNCHANGED <<acks, pending>> ELSE Ack(wr.ID)
    /\ upc' = "idle"
    /\ err' = FALSE
    /\ UNCHANGED <<records, nextID, events, producers, cur, wr, failed, upFrame>>

UpdateNext ==
    \/ \E d \in pending : ProcessorSkips(d)
    \/ \E d \in pending : ProcessorAdvances(d)
    \/ StoreRefuses
    \/ StoreCallsContinuation
    \/ SendFails
    \/ SendSucceeds
    \/ \E closeErr \in BOOLEAN : Close(closeErr)
    \/ StoreRollsBack
    \/ StoreCommits
    \/ ProcessorFinishes

UpdateSpec == UpdateInit /\ [][UpdateNext]_vars


\* ------------------------------------------------------- the builder
\* The Status values of the workflow being built, the handler functions the
\* user passes, and the destinations a call names.
StatusValues == {1, 2}
ConsumerFuncs == {"stepA", "stepB"}
CallbackFuncs == {"callbackA", "callbackB"}
TimeoutFuncs == {"timeoutA", "timeoutB"}
Destinations(from) == {<< >>, <<3 - from>>}

\* NewBuilder, lines 25-43.
NewBuilder ==
    /\ consumers = << >>
    /\ timeouts = << >>
    /\ BuilderParked
    /\ RuntimeParked
    /\ UpdateParked

bFrame == <<replicas, rtVars, upVars>>
buildFrame == <<connectorConfigs, workflowConnectorConfigs, deps, built>>

Put(f, k, v) == [x \in DOMAIN f \cup {k} |-> IF x = k THEN v ELSE f[x]]
Logged(call, panicked) == log' = Append(log, call @@ [panicked |-> panicked])

\* statusGraph.AddTransition(int(from), int(to)) for each allowed destination
\* (lines 58-60, 101-103, 121-123).
AddTransitions(from, dests) ==
    statusGraph' = statusGraph \cup {<<from, dests[i]>> : i \in DOMAIN dests}

\* AddStep without the check for an existing step: the new consumer replaces
\* the old one.
AddStep_Overwrites(from, c, dests) ==
    LET call == [op |-> "AddStep", from |-> from, fn |-> c] IN
    /\ Len(log) < MaxBuilderCalls
    /\ Logged(call, FALSE)
    /\ AddTransitions(from, dests)
    /\ consumers' = Put(consumers, from, [consumer |-> c, parallelCount |-> 0])
    /\ UNCHANGED <<timeouts, callback, buildFrame, bFrame>>

\* AddStep, lines 49-72: panics when the status already has a step, else adds
\* the transitions and stores the consumer.
AddStep(from, c, dests) ==
    LET call == [op |-> "AddStep", from |-> from, fn |-> c] IN
    /\ Len(log) < MaxBuilderCalls
    /\ IF from \in DOMAIN consumers
       THEN /\ Logged(call, TRUE)
            /\ UNCHANGED <<consumers, statusGraph>>
       ELSE /\ Logged(call, FALSE)
            /\ AddTransitions(from, dests)
            /\ consumers' = Put(consumers, from, [consumer |-> c, parallelCount |-> 0])
    /\ UNCHANGED <<timeouts, callback, buildFrame, bFrame>>

\* stepUpdater.WithOptions, lines 79-94, on the updater AddStep returned for
\* from: the options replace the consumer's, the consumer function stays.
StepWithOptions(from, parallelCount) ==
    LET call == [op |-> "StepWithOptions", from |-> from, fn |-> ""] IN
    /\ Len(log) < MaxBuilderCalls
    /\ from \in DOMAIN consumers
    /\ Logged(call, FALSE)
    /\ consumers' = [consumers EXCEPT ![from].parallelCount = parallelCount]
    /\ UNCHANGED <<timeouts, callback, statusGraph, buildFrame, bFrame>>

\* AddCallback, lines 96-106: adds the transitions and appends the callback.
AddCallback(from, fn, dests) ==
    LET call == [op |-> "AddCallback", from |-> from, fn |-> fn] IN
    /\ Len(log) < MaxBuilderCalls
    /\ Logged(call, FALSE)
    /\ AddTransitions(from, dests)
    /\ callback' = Put(callback, from,
                       Append(IF from \in DOMAIN callback THEN callback[from] ELSE << >>, fn))
    /\ UNCHANGED <<consumers, timeouts, buildFrame, bFrame>>

\* AddTimeout, lines 108-132: adds the transitions and appends the timeout to
\* the transitions of the status.
AddTimeout(from, tf, dests) ==
    LET call == [op |-> "AddTimeout", from |-> from, fn |-> tf]
        old == IF from \in DOMAIN timeouts THEN timeouts[from] ELSE ZeroTimeouts
    IN
    /\ Len(log) < MaxBuilderCalls
    /\ Logged(call, FALSE)
    /\ AddTransitions(from, dests)
    /\ timeouts' = Put(timeouts, from, [old EXCEPT !.transitions = Append(@, tf)])
    /\ UNCHANGED <<consumers, callback, buildFrame, bFrame>>

\* The option sets a WithOptions call on a timeout is given, as the options
\* struct the Option functions fill in (lines 142-145).
TimeoutOptions ==
    {[parallelCount |-> n, lag |-> l, pollingFrequency |-> x, errBackOff |-> x,
      lagAlert |-> x, pauseAfterErrCount |-> x] : n \in {0, 1}, l \in {0, 1}, x \in {0, 1}}

\* timeoutUpdater.WithOptions without the check of lag.
TimeoutWithOptions_NoLagCheck(from, opts) ==
    LET call == [op |-> "TimeoutWithOptions", from |-> from, fn |-> "", opts |-> opts] IN
    /\ Len(log) < MaxBuilderCalls
    /\ from \in DOMAIN timeouts
    /\ IF opts.parallelCount # 0
       THEN /\ Logged(call, TRUE)
            /\ UNCHANGED timeouts
       ELSE /\ Logged(call, FALSE)
            /\ timeouts' = [timeouts EXCEPT ![from] =
                  [@ EXCEPT !.pollingFrequency = opts.pollingFrequency,
                            !.errBackOff = opts.errBackOff,
                            !.lagAlert = opts.lagAlert,
                            !.pauseAfterErrCount = opts.pauseAfterErrCount]]
    /\ UNCHANGED <<consumers, callback, statusGraph, buildFrame, bFrame>>

\* timeoutUpdater.WithOptions, lines 139-160, on the updater AddTimeout returned
\* for from: panics on a parallel count or a lag, else copies the polling
\* frequency, the error backoff, the lag alert and the pause count.
TimeoutWithOptions(from, opts) ==
    LET call == [op |-> "TimeoutWithOptions", from |-> from, fn |-> "", opts |-> opts] IN
    /\ Len(log) < MaxBuilderCalls
    /\ from \in DOMAIN timeouts
    /\ IF opts.parallelCount # 0 \/ opts.lag # 0
       THEN /\ Logged(call, TRUE)
            /\ UNCHANGED timeouts
       ELSE /\ Logged(call, FALSE)
            /\ timeouts' = [timeouts EXCEPT ![from] =
                  [@ EXCEPT !.pollingFrequency = opts.pollingFrequency,
                            !.errBackOff = opts.errBackOff,
                            !.lagAlert = opts.lagAlert,
                            !.pauseAfterErrCount = opts.pauseAfterErrCount]]
    /\ UNCHANGED <<consumers, callback, statusGraph, buildFrame, bFrame>>

\* The names AddConnector is called with.
ConnectorNames == {"connectorA", "connectorB"}

\* AddConnector without the search for the name.
AddConnector_NoCheck(name) ==
    LET call == [op |-> "AddConnector", from |-> 0, fn |-> name] IN
    /\ Len(log) < MaxBuilderCalls
    /\ Logged(call, FALSE)
    /\ connectorConfigs' = Append(connectorConfigs, [name |-> name, parallelCount |-> 0])
    /\ UNCHANGED <<consumers, timeouts, callback, statusGraph, workflowConnectorConfigs,
                   deps, built, bFrame>>

\* AddConnector, lines 162-184: panics when a configured connector has the
\* name, else appends the configuration.
AddConnector(name) ==
    LET call == [op |-> "AddConnector", from |-> 0, fn |-> name] IN
    /\ Len(log) < MaxBuilderCalls
    /\ IF \E i \in DOMAIN connectorConfigs : connectorConfigs[i].name = name
       THEN /\ Logged(call, TRUE)
            /\ UNCHANGED connectorConfigs
       ELSE /\ Logged(call, FALSE)
            /\ connectorConfigs' = Append(connectorConfigs, [name |-> name, parallelCount |-> 0])
    /\ UNCHANGED <<consumers, timeouts, callback, statusGraph, workflowConnectorConfigs,
                   deps, built, bFrame>>

\* connectorUpdater.WithOptions, lines 191-201, on the updater AddConnector
\* returned for the connector called name: the options replace those of the
\* configuration the updater points to, which is the one in w.connectorConfigs.
ConnectorWithOptions(name, parallelCount) ==
    LET call == [op |-> "ConnectorWithOptions", from |-> 0, fn |-> name,
                 parallelCount |-> parallelCount]
    IN
    /\ Len(log) < MaxBuilderCalls
    /\ \E i \in DOMAIN connectorConfigs : connectorConfigs[i].name = name
    /\ Logged(call, FALSE)
    /\ connectorConfigs' = [i \in DOMAIN connectorConfigs |->
          IF connectorConfigs[i].name = name
          THEN [connectorConfigs[i] EXCEPT !.parallelCount = parallelCount]
          ELSE connectorConfigs[i]]
    /\ UNCHANGED <<consumers, timeouts, callback, statusGraph, workflowConnectorConfigs,
                   deps, built, bFrame>>

\* Build, lines 215-253, called with an event streamer, a record store and a
\* role scheduler, and with or without the WithTimeoutStore option (TRUE: the
\* value is not nil).  The dependencies are assigned, then Build panics when
\* timeouts are configured and the timeout store is nil, else it returns the
\* workflow.
Build(eventStreamer, recordStore, roleScheduler, timeoutStore) ==
    LET call == [op |-> "Build", from |-> 0, fn |-> ""]
        panics == DOMAIN timeouts # {} /\ ~timeoutStore
    IN
    /\ Len(log) < MaxBuilderCalls
    /\ deps' = [eventStreamer |-> eventStreamer, recordStore |-> recordStore,
                scheduler |-> roleScheduler, timeoutStore |-> timeoutStore]
    /\ Logged(call, panics)
    /\ built' = IF panics THEN "panicked" ELSE "returned"
    /\ UNCHANGED <<consumers, timeouts, callback, statusGraph, connectorConfigs,
                   workflowConnectorConfigs, bFrame>>

\* One call on the builder.
BuilderCall ==
    \/ \E from \in StatusValues, c \in ConsumerFuncs : \E dests \in Destinations(from) :
          AddStep(from, c, dests)
    \/ \E from \in StatusValues, n \in 0..MaxParallel : StepWithOptions(from, n)
    \/ \E from \in StatusValues, fn \in CallbackFuncs : \E dests \in Destinations(from) :
          AddCallback(from, fn, dests)
    \/ \E from \in StatusValues, tf \in TimeoutFuncs : \E dests \in Destinations(from) :
          AddTimeout(from, tf, dests)
    \/ \E from \in StatusValues, opts \in TimeoutOptions : TimeoutWithOptions(from, opts)
    \/ \E name \in ConnectorNames : AddConnector(name)
    \/ \E name \in ConnectorNames, n \in 0..MaxParallel : ConnectorWithOptions(name, n)
    \/ \E es, rs, sch, ts \in BOOLEAN : Build(es, rs, sch, ts)

\* The calls made on a builder; Build is the last of them.
BuilderNext == built = "no" /\ BuilderCall

BuilderSpec == NewBuilder /\ [][BuilderNext]_vars

\* ------------------------------------------------------ runtime: Init
\* The slices of connector configurations the model is run on: the connectors
\* added (AddConnector, names distinct) are a prefix of ConnectorOrder, each
\* left at parallel count 0 or set to 2 (connectorUpdater.WithOptions); there
\* is at most one workflow connector, unsharded.
ConnectorOrder == <<"connectorA", "connectorB">>

ConnectorSlices ==
    UNION {{[i \in 1..l |-> [name |-> ConnectorOrder[i], parallelCount |-> n[i]]] :
               n \in [1..l -> {0, 2}]} : l \in 0..Len(ConnectorOrder)}

WorkflowConnectorSlices ==
    {<< >>, <<[name |-> "workflowConnectorA", parallelCount |-> 0]>>}

\* The workflows the model is run on, as the builder makes them: every replica
\* is the same build.  A status has either no consumer or the one consumer
\* AddStep allows it (builder.go, lines 54-56), with a ParallelCount in
\* 0..MaxParallel; some statuses have timeouts; the connectors are as above.
\* At most m goroutines are alive over all replicas.
ConfigsUpTo(m) ==
    {c \in [n : 1..MaxReplicas,
            cons : UNION {[d -> {<<[consumer |-> "stepA", ParallelCount |-> k]>> :
                                    k \in 0..MaxParallel}] : d \in SUBSET Statuses},
            touts : UNION {[d -> {[ZeroTimeouts EXCEPT !.transitions = <<"timeoutA">>]}] :
                             d \in SUBSET Statuses},
            wconns : WorkflowConnectorSlices,
            conns : ConnectorSlices] :
        LET k == Cardinality(DOMAIN GoStatements(c.cons, c.touts, c.wconns, c.conns))
        IN k >= 1 /\ c.n * k <= m}

Configs == ConfigsUpTo(MaxProcs)

\* ----------------------------------------------------------------- Init
\* The state after Build, before any call of Run, of the replicas of config c.
Built(c) ==
    /\ replicas = 1..c.n
    /\ consumers = c.cons
    /\ timeouts = c.touts
    /\ workflowConnectorConfigs = c.wconns
    /\ connectorConfigs = c.conns
    /\ ctx = [r \in 1..c.n |-> "nil"]
    /\ ctxSets = [r \in 1..c.n |-> 0]
    /\ once = [r \in 1..c.n |-> FALSE]
    /\ runCalls = 0
    /\ launches = [r \in 1..c.n |-> << >>]
    /\ pc = [r \in 1..c.n |-> << >>]
    /\ seen = [r \in 1..c.n |-> << >>]
    /\ internalState = [r \in 1..c.n |-> << >>]
    /\ leases = {}
    /\ stopPc = [r \in 1..c.n |-> "idle"]
    /\ stopReturned = [r \in 1..c.n |-> FALSE]
    /\ retrying = [r \in 1..c.n |-> {}]
    /\ stoppedEarly = [r \in 1..c.n |-> FALSE]
    /\ ranAfterStop = [r \in 1..c.n |-> FALSE]
    /\ UpdateParked
    /\ callback = << >>
    /\ statusGraph = {}
    /\ deps = NoDeps
    /\ built = "no"
    /\ log = << >>

Init == \E c \in Configs : Built(c)

FairInit == \E c \in ConfigsUpTo(MaxFairProcs) : Built(c)

\* ------------------------------------------------------ state reporting
\* updateState (called at lines 147, 148, 176): w.internalState[name] = s, under
\* w.internalStateMu.
updateState(r, g, s) ==
    internalState' = [internalState EXCEPT
        ![r] = [q \in DOMAIN @ \cup {Role(g)} |-> IF q = Role(g) THEN s ELSE @[q]]]

\* States (called at line 217): a snapshot of w.internalState.
States(r) == internalState[r]

\* The state replica r reports for the process of goroutine g (StateUnknown when
\* none is recorded).
Reported(r, g) ==
    IF Role(g) \in DOMAIN internalState[r] THEN internalState[r][Role(g)] ELSE StateUnknown

\* ------------------------------------------------------------------ Run
\* The function Run hands to w.once.Do, lines 95-141, for a call of Run whose
\* context argument is already done (parentDone) or not: w.ctx is derived
\* from it, and every go statement starts a goroutine.
RunBody(r, parentDone) ==
    LET go == GoStatements(consumers, timeouts, workflowConnectorConfigs, connectorConfigs)
        old(p) == IF p \in DOMAIN launches[r] THEN launches[r][p] ELSE 0
        started == UNION {{Append(p, old(p) + i) : i \in 1..go[p]} : p \in DOMAIN go}
    IN
    /\ ctx' = [ctx EXCEPT ![r] = IF parentDone THEN "cancelled" ELSE "live"]
    /\ ctxSets' = [ctxSets EXCEPT ![r] = @ + 1]
    /\ launches' = [launches EXCEPT ![r] =
          [p \in DOMAIN @ \cup DOMAIN go |-> old(p) + (IF p \in DOMAIN go THEN go[p] ELSE 0)]]
    /\ pc' = [pc EXCEPT ![r] = [g \in DOMAIN @ \cup started |->
                                   IF g \in DOMAIN @ THEN @[g] ELSE "go"]]

\* A call of Run that follows the return of a Stop which cancelled w.ctx is
\* noted, and the note of a Stop made before Run is dropped.
RunNoted(r) ==
    /\ ranAfterStop' = [ranAfterStop EXCEPT ![r] = @ \/ stopReturned[r]]
    /\ stoppedEarly' = [stoppedEarly EXCEPT ![r] = FALSE]

\* Run with a Once that a returned Stop has reset: every call after Stop runs
\* the function again.
Run_AgainAfterStop(r, parentDone) ==
    /\ runCalls < MaxRunCalls
    /\ runCalls' = runCalls + 1
    /\ RunNoted(r)
    /\ IF once[r] /\ ~stopReturned[r]
       THEN UNCHANGED <<ctx, ctxSets, once, launches, pc>>
       ELSE /\ once' = [once EXCEPT ![r] = TRUE]
            /\ RunBody(r, parentDone)
    /\ UNCHANGED <<cfgVars, seen, internalState, leases, stopPc, stopReturned, retrying>>

\* Run without the sync.Once: every call runs the function.
Run_EveryCall(r, parentDone) ==
    /\ runCalls < MaxRunCalls
    /\ runCalls' = runCalls + 1
    /\ RunNoted(r)
    /\ once' = [once EXCEPT ![r] = TRUE]
    /\ RunBody(r, parentDone)
    /\ UNCHANGED <<cfgVars, seen, internalState, leases, stopPc, stopReturned, retrying>>

\* Run(ctx), lines 92-143: once.Do runs the function on the first call only.
Run(r, parentDone) ==
    /\ runCalls < MaxRunCalls
    /\ runCalls' = runCalls + 1
    /\ RunNoted(r)
    /\ IF once[r]
       THEN UNCHANGED <<ctx, ctxSets, once, launches, pc>>
       ELSE /\ once' = [once EXCEPT ![r] = TRUE]
            /\ RunBody(r, parentDone)
    /\ UNCHANGED <<cfgVars, seen, internalState, leases, stopPc, stopReturned, retrying>>

\* ------------------------------------------------- the role-leased loop
At(r, p, where) == p \in DOMAIN pc[r] /\ pc[r][p] = where
Goto(r, p, where) == pc' = [pc EXCEPT ![r][p] = where]
loopFrame == <<cfgVars, ctx, ctxSets, once, runCalls, launches, stopPc, stopReturned,
               stoppedEarly, ranAfterStop, seen>>

\* The release function the scheduler returns with a lease (cancel, lines 190,
\* 197, 200): the lease is live from its grant until this is called.
Release(r, p) == leases' = leases \ {<<Role(p), r>>}

\* Scheduler contract: a role is granted only while no lease on it is live.
RoleFree(p) == \A r \in replicas : <<Role(p), r>> \notin leases

\* The configurations a connector goroutine can find behind the &config of its
\* go statement (lines 126, 138) when it first reads it: config is the range
\* variable, which the loop has either left alone or overwritten with a later
\* element of the slice (one variable per loop or one per iteration, as the
\* toolchain makes it).
ConfigSeen(g) ==
    LET cfgs == IF g[1] = "workflowConnector" THEN workflowConnectorConfigs
                ELSE connectorConfigs
        own == {j \in DOMAIN cfgs : cfgs[j].name = g[2]}
    IN {cfgs[k].name : k \in {k \in DOMAIN cfgs : \E j \in own : k >= j}}

IsConnector(g) == g[1] \in {"workflowConnector", "connector"}

\* run, line 147: the goroutine starts and reports Idle.  A connector goroutine
\* has read its configuration by then.
RunStart(r, p) ==
    /\ At(r, p, "go")
    /\ updateState(r, p, StateIdle)
    /\ Goto(r, p, "top")
    /\ IF IsConnector(p)
       THEN \E name \in ConfigSeen(p) :
               seen' = [seen EXCEPT ![r] = (p :> name) @@ @]
       ELSE UNCHANGED seen
    /\ UNCHANGED <<cfgVars, ctx, ctxSets, once, runCalls, launches, stopPc, stopReturned,
                   stoppedEarly, ranAfterStop, retrying, leases>>

\* TopExit without the check of w.ctx.Err(): the loop goes on to Await.
TopExit_NoCheck(r, p) ==
    /\ At(r, p, "top")
    /\ ctx[r] = "cancelled"
    /\ Goto(r, p, "await")
    /\ retrying' = [retrying EXCEPT ![r] = @ \ {p}]
    /\ UNCHANGED <<loopFrame, leases, internalState>>

\* run, lines 151-161 (and the deferred line 148): the parent context is
\* cancelled, so the loop returns and the process reports Shutdown.
TopExit(r, p) ==
    /\ At(r, p, "top")
    /\ ctx[r] = "cancelled"
    /\ updateState(r, p, StateShutdown)
    /\ Goto(r, p, "returnedTop")
    /\ retrying' = [retrying EXCEPT ![r] = @ \ {p}]
    /\ UNCHANGED <<loopFrame, leases>>

\* run, lines 151 and 163: the context is live, the loop calls scheduler.Await.
TopAwait(r, p) ==
    /\ At(r, p, "top")
    /\ ctx[r] = "live"
    /\ Goto(r, p, "await")
    /\ retrying' = [retrying EXCEPT ![r] = @ \ {p}]
    /\ UNCHANGED <<loopFrame, leases, internalState>>

\* run, lines 163, 176, 178: Await grants the role; the process reports Running
\* and the process function is invoked with the leased context.
AwaitGranted(r, p) ==
    /\ At(r, p, "await")
    /\ RoleFree(p)
    /\ leases' = leases \cup {<<Role(p), r>>}
    /\ updateState(r, p, StateRunning)
    /\ Goto(r, p, "process")
    /\ UNCHANGED <<loopFrame, retrying>>

\* run, lines 164-166 (and 148): Await returns a cancellation error; the loop
\* returns.  The scheduler returns it once w.ctx is cancelled, and it is free to
\* return it for a cancellation of its own while w.ctx is live.
AwaitCancelled(r, p) ==
    /\ At(r, p, "await")
    /\ updateState(r, p, StateShutdown)
    /\ Goto(r, p, "returnedAwait")
    /\ UNCHANGED <<loopFrame, retrying, leases>>

\* AwaitError without its continue: the loop falls through to the process call.
AwaitError_FallsThrough(r, p) ==
    /\ At(r, p, "await")
    /\ updateState(r, p, StateRunning)
    /\ Goto(r, p, "process")
    /\ UNCHANGED <<loopFrame, retrying, leases>>

\* run, lines 167-172: Await returns another error; the loop sleeps errBackOff.
AwaitError(r, p) ==
    /\ At(r, p, "await")
    /\ Goto(r, p, "sleep")
    /\ UNCHANGED <<loopFrame, retrying, leases, internalState>>

\* run, lines 172-173: time.Sleep(errBackOff) returns; continue.
SleepDone(r, p) ==
    /\ At(r, p, "sleep")
    /\ Goto(r, p, "top")
    /\ UNCHANGED <<loopFrame, retrying, leases, internalState>>

\* run, lines 178, 187-191: the process function returns nil; the lease is
\* released and the loop continues.
ProcessNil(r, p) ==
    /\ At(r, p, "process")
    /\ Release(r, p)
    /\ Goto(r, p, "top")
    /\ UNCHANGED <<loopFrame, retrying, internalState>>

\* ProcessCancelled returning from run instead of continuing.
ProcessCancelled_Returns(r, p) ==
    /\ At(r, p, "process")
    /\ updateState(r, p, StateShutdown)
    /\ Goto(r, p, "returnedTop")
    /\ UNCHANGED <<loopFrame, retrying, leases>>

\* ProcessCancelled going into the error backoff instead of continuing.
ProcessCancelled_BacksOff(r, p) ==
    /\ At(r, p, "process")
    /\ Goto(r, p, "backoff")
    /\ retrying' = [retrying EXCEPT ![r] = @ \cup {p}]
    /\ UNCHANGED <<loopFrame, leases, internalState>>

\* run, lines 178-181: the process function returns a cancellation error; the
\* loop continues (the release function is not called on this path).
ProcessCancelled(r, p) ==
    /\ At(r, p, "process")
    /\ Goto(r, p, "top")
    /\ retrying' = [retrying EXCEPT ![r] = @ \cup {p}]
    /\ UNCHANGED <<loopFrame, leases, internalState>>

\* ProcessError calling the release function before the backoff.
ProcessError_ReleasesFirst(r, p) ==
    /\ At(r, p, "process")
    /\ Release(r, p)
    /\ Goto(r, p, "backoff")
    /\ UNCHANGED <<loopFrame, retrying, internalState>>

\* run, lines 178, 182-186, 195: the process function returns another error;
\* the loop enters the select of its backoff.
ProcessError(r, p) ==
    /\ At(r, p, "process")
    /\ Goto(r, p, "backoff")
    /\ UNCHANGED <<loopFrame, retrying, leases, internalState>>

\* run, lines 196-198: the leased context (derived from w.ctx) is done.
BackoffCtxDone(r, p) ==
    /\ At(r, p, "backoff")
    /\ ctx[r] = "cancelled"
    /\ Release(r, p)
    /\ Goto(r, p, "top")
    /\ UNCHANGED <<loopFrame, retrying, internalState>>

\* run, lines 199-201: errBackOff has elapsed.
BackoffElapsed(r, p) ==
    /\ At(r, p, "backoff")
    /\ Release(r, p)
    /\ Goto(r, p, "top")
    /\ UNCHANGED <<loopFrame, retrying, internalState>>

\* ----------------------------------------------------------------- Stop
\* Stop, lines 208-213: return at once when Run never set w.cancel, else cancel
\* the workflow's context and start polling.  The owner of a workflow stops it
\* once: it calls Stop again only after a call that found nothing to cancel.
StopCall(r) ==
    /\ stopPc[r] = "idle"
    /\ ~stopReturned[r]
    /\ IF ctx[r] = "nil"
       THEN /\ stoppedEarly' = [stoppedEarly EXCEPT ![r] = TRUE]
            /\ UNCHANGED <<ctx, stopPc>>
       ELSE /\ ctx' = [ctx EXCEPT ![r] = "cancelled"]
            /\ stopPc' = [stopPc EXCEPT ![r] = "polling"]
            /\ UNCHANGED stoppedEarly
    /\ UNCHANGED <<cfgVars, ctxSets, once, runCalls, launches, pc, seen, internalState,
                   leases, stopReturned, ranAfterStop, retrying>>

\* Stop, lines 215-230: one pass over States() that counts no running process.
StopReturn(r) ==
    /\ stopPc[r] = "polling"
    /\ \A p \in DOMAIN States(r) : States(r)[p] \in {StateUnknown, StateShutdown}
    /\ stopPc' = [stopPc EXCEPT ![r] = "idle"]
    /\ stopReturned' = [stopReturned EXCEPT ![r] = TRUE]
    /\ UNCHANGED <<cfgVars, ctx, ctxSets, once, runCalls, launches, pc, seen, internalState,
                   leases, stoppedEarly, ranAfterStop, retrying>>

\* The context handed to Run is cancelled by its owner (line 95: w.ctx is a
\* child of it, so w.ctx is done without any call of Stop).
ParentCancel(r) ==
    /\ ctx[r] = "live"
    /\ ctx' = [ctx EXCEPT ![r] = "cancelled"]
    /\ UNCHANGED <<cfgVars, ctxSets, once, runCalls, launches, pc, seen, internalState,
                   leases, stopPc, stopReturned, stoppedEarly, ranAfterStop, retrying>>

\* ----------------------------------------------------------------- Next
Step(r, p) ==
    \/ RunStart(r, p)
    \/ TopExit(r, p)
    \/ TopAwait(r, p)
    \/ AwaitGranted(r, p)
    \/ AwaitCancelled(r, p)
    \/ AwaitError(r, p)
    \/ SleepDone(r, p)
    \/ ProcessNil(r, p)
    \/ ProcessCancelled(r, p)
    \/ ProcessError(r, p)
    \/ BackoffCtxDone(r, p)
    \/ BackoffElapsed(r, p)

Next ==
    \E r \in replicas :
        \/ \E parentDone \in BOOLEAN : Run(r, parentDone)
        \/ ParentCancel(r)
        \/ StopCall(r)
        \/ StopReturn(r)
        \/ \E p \in DOMAIN pc[r] : Step(r, p)

Spec == Init /\ [][Next]_vars

\* Fair scheduling of the goroutines: a started goroutine runs its first line,
\* a step of the loop that is possible once w.ctx is cancelled is taken (Await
\* and the process function return once their context is cancelled, the
\* backoff timers fire), and Stop's polling loop keeps running.
AllProcessors ==
    UNION {{Append(p, 1) : p \in DOMAIN GoStatements(c.cons, c.touts, c.wconns, c.conns)} :
             c \in ConfigsUpTo(MaxFairProcs)}

Fairness ==
    \A r \in 1..MaxReplicas :
        /\ WF_vars(r \in replicas /\ StopReturn(r))
        /\ WF_vars(r \in replicas /\ \E p \in DOMAIN pc[r] :
                      RunStart(r, p) \/ (ctx[r] = "cancelled" /\ Step(r, p)))

FairSpec == FairInit /\ [][Next]_vars /\ Fairness

\* The steps of the loop that wait for no timer: every step but the return of
\* time.Sleep (line 172) and the time.After arm of the select (line 199).
UntimedStep(r, p) ==
    \/ RunStart(r, p)
    \/ TopExit(r, p)
    \/ TopAwait(r, p)
    \/ AwaitGranted(r, p)
    \/ AwaitCancelled(r, p)
    \/ AwaitError(r, p)
    \/ ProcessNil(r, p)
    \/ ProcessCancelled(r, p)
    \/ ProcessError(r, p)
    \/ BackoffCtxDone(r, p)

\* Fair scheduling in which the errBackOff timers may take arbitrarily long:
\* only the steps that wait for no timer are sure to be taken.
UntimedFairness ==
    \A r \in 1..MaxReplicas :
        /\ WF_vars(r \in replicas /\ StopReturn(r))
        /\ WF_vars(r \in replicas /\ \E p \in DOMAIN pc[r] :
                      RunStart(r, p) \/ (ctx[r] = "cancelled" /\ UntimedStep(r, p)))

UntimedFairSpec == FairInit /\ [][Next]_vars /\ UntimedFairness

\* ============================================================== claims
Launched(r) == DOMAIN pc[r]
Returned == {"returnedTop", "returnedAwait"}
InProcess(r, p) == At(r, p, "process")

\* C1: the process function of a role is never being executed by two replicas
\* at once, and a replica executes it only while it holds the lease its Await
\* obtained (after the grant, before the release).
C1_ProcessExclusive ==
    \A r1 \in replicas : \A p \in Launched(r1) :
        InProcess(r1, p) =>
            /\ <<Role(p), r1>> \in leases
            /\ \A r2 \in replicas : \A q \in Launched(r2) :
                  (Role(q) = Role(p) /\ InProcess(r2, q)) => (r2 = r1 /\ q = p)

\* Two replicas contend for one role: one executes the process function after
\* an earlier hand-off, the other waits in Await.
C1_Witness ==
    \E r1, r2 \in replicas : \E p \in Launched(r1) :
        /\ r1 # r2
        /\ InProcess(r1, p)
        /\ At(r2, p, "await")
        /\ Reported(r2, p) = StateRunning

\* C2: once a Stop that followed Run has returned, every processor Run
\* launched has reported Shutdown.
C2_StopWaitsForShutdown ==
    \A r \in replicas :
        stopReturned[r] => \A p \in Launched(r) : Reported(r, p) = StateShutdown

\* C3: after Stop has cancelled the root context, every processor of the
\* replica reports Shutdown and Stop returns.
C3_StopTerminates ==
    \A r \in 1..MaxReplicas :
        (r \in replicas /\ stopPc[r] = "polling")
            ~> (/\ r \in replicas
                /\ stopPc[r] = "idle"
                /\ stopReturned[r]
                /\ \A p \in Launched(r) : Reported(r, p) = StateShutdown)

\* Stop has returned and every processor of the replica, each of which had
\* been through its loop, reports Shutdown.
C3_Witness ==
    \E r \in replicas :
        /\ stopReturned[r]
        /\ stopPc[r] = "idle"
        /\ Launched(r) # {}
        /\ \A p \in Launched(r) : Reported(r, p) = StateShutdown
        /\ \A p \in Launched(r) : pc[r][p] = "returnedTop"

\* C4: however often Run is called, the root context and cancel function are
\* set once and every processor is launched once; before the first call
\* nothing is launched.
C4_RunOnce ==
    \A r \in replicas :
        /\ ctxSets[r] = (IF once[r] THEN 1 ELSE 0)
        /\ (once[r] <=> Launched(r) # {})
        /\ (once[r] <=> ctx[r] # "nil")
        /\ \A p \in DOMAIN launches[r] : launches[r][p] = 1
        /\ Launched(r) = {Append(p, 1) : p \in DOMAIN launches[r]}
        /\ once[r] => DOMAIN launches[r] =
              DOMAIN GoStatements(consumers, timeouts, workflowConnectorConfigs,
                                  connectorConfigs)

\* Run has been called again on a replica whose processors are running.
C4_Witness ==
    /\ replicas = {1}
    /\ runCalls >= 2
    /\ once[1]
    /\ \E p \in Launched(1) : pc[1][p] # "go"

\* C5: at most one replica reports Running for the process of a role.
C5_OneRunning ==
    \A r1, r2 \in replicas : \A p \in Launched(r1) :
        (Reported(r1, p) = StateRunning /\ Reported(r2, p) = StateRunning) => r1 = r2

\* C6 as stated: a processor reports Shutdown only when the root context has
\* been cancelled.
C6_ShutdownOnlyAfterCancel ==
    \A r \in replicas : \A p \in Launched(r) :
        Reported(r, p) = StateShutdown => ctx[r] = "cancelled"

\* C6 as amended: a processor reports Shutdown only once its loop has returned,
\* which it does at the top of the loop only with the root context cancelled;
\* while the root context is live the loop returns on no outcome other than a
\* cancellation error of Await, and after every other outcome it is on its way
\* to the next Await.
C6_ExitsOnlyOnCancellation ==
    /\ [](\A r \in replicas : \A p \in Launched(r) :
            /\ Reported(r, p) = StateShutdown <=> pc[r][p] \in Returned
            /\ pc[r][p] = "returnedTop" => ctx[r] = "cancelled")
    /\ [][\A r \in replicas : \A p \in Launched(r) :
            (pc[r][p] \notin Returned /\ pc'[r][p] \in Returned /\ ctx[r] = "live")
                => (pc[r][p] = "await" /\ pc'[r][p] = "returnedAwait")]_vars
    /\ [][\A r \in replicas : \A p \in Launched(r) :
            (pc[r][p] \in {"process", "backoff", "sleep"} /\ pc'[r][p] # pc[r][p])
                => pc'[r][p] \in {"top", "backoff"}]_vars

\* With the root context live, a processor is back in Await after its process
\* function returned a cancellation error.
C6_Witness ==
    \E r \in replicas : \E p \in Launched(r) :
        /\ ctx[r] = "live"
        /\ At(r, p, "await")
        /\ Reported(r, p) = StateRunning
        /\ <<Role(p), r>> \in leases

\* C8: for every status with a consumer, Run launches shards 1..N of N, each
\* once, when ParallelCount N is at least 2, and shard 1 of 1 otherwise.
C8_ShardsLaunched ==
    \A r \in replicas : once[r] =>
        \A s \in DOMAIN consumers : \A c \in DOMAIN consumers[s] :
            LET N == consumers[s][c].ParallelCount
                shards == {p \in DOMAIN launches[r] : p[1] = "consumer" /\ p[2] = s}
            IN /\ shards = (IF N >= 2 THEN {<<"consumer", s, i, N>> : i \in 1..N}
                                      ELSE {<<"consumer", s, 1, 1>>})
               /\ \A p \in shards : launches[r][p] = 1

\* Run has launched the shards of a consumer with the largest parallel count.
C8_Witness ==
    \E r \in replicas : \E s \in DOMAIN consumers :
        /\ once[r]
        /\ consumers[s][1].ParallelCount = MaxParallel
        /\ \A i \in 1..MaxParallel : At(r, <<"consumer", s, i, MaxParallel, 1>>, "top")

\* C7: a step processor acknowledges a delivery it advanced only after the
\* store committed the write of the advanced record, whose next-status event
\* has been published; when the write did not commit, the delivery is not
\* acknowledged and stays owed (it is delivered again).
C7_AckAfterWrite ==
    /\ [](\A a \in acks : a.id # 0 =>
            /\ records[a.run].Status > a.status
            /\ records[a.run].ID >= a.id
            /\ \E i \in DOMAIN events :
                  /\ events[i].id = a.id
                  /\ events[i].status = a.status + 1
                  /\ events[i].headers[HeaderRunID] = a.run)
    /\ [][(upc = "updated" /\ upc' = "idle" /\ records[wr.RunID] # wr)
            => (acks' = acks /\ cur \in pending')]_vars

\* A delivery was acknowledged after its second write: the first attempt failed
\* and the delivery was made again.
C7_Witness ==
    \E a \in acks :
        /\ a.id >= 2
        /\ a.status = 1
        /\ records[a.run].ID = a.id
        /\ \A b \in acks : b.id # 0 => b = a

\* C9: the event update has just sent is on the topic of the record's workflow
\* name and new status, is keyed by the identifier the store assigned to the
\* write, which is also the record's ID, and carries exactly the four headers,
\* the topic header naming the topic it was sent on; every event sent keeps
\* that shape.
C9_EventShape ==
    /\ \A i \in DOMAIN events :
          /\ DOMAIN events[i].headers =
                {HeaderWorkflowForeignID, HeaderWorkflowName, HeaderTopic, HeaderRunID}
          /\ events[i].headers[HeaderTopic] = events[i].topic
          /\ events[i].headers[HeaderWorkflowName] = "wf"
    /\ upc = "close" =>
          LET e == events[Len(events)] IN
          /\ e.topic = "wf-" \o ToString(cur[2] + 1)
          /\ e.status = cur[2] + 1
          /\ e.id = nextID - 1
          /\ wr.ID = nextID - 1
          /\ e.headers[HeaderRunID] = cur[1]
          /\ e.headers[HeaderWorkflowForeignID] = ForeignIDOf(cur[1])

\* update has just sent the event of a second run's last status, under an
\* identifier other than the first.
C9_Witness ==
    /\ upc = "close"
    /\ Len(events) >= 2
    /\ cur = <<"run2", LastStatus - 1>>
    /\ events[Len(events)].topic = Topic(WorkflowName, LastStatus)
    /\ events[Len(events)].id >= 2

\* The calls of one builder operation for status s, in the order made.
CallsOf(op, s) == SelectSeq(log, LAMBDA c : c.op = op /\ c.from = s)

\* C10: a status has a step exactly when AddStep was called for it, the step
\* is the one of the first call and every later AddStep for the status
\* panicked; no AddCallback or AddTimeout panicked, and the callbacks and the
\* timeouts of a status are those added, all of them, in order.
C10_OneStepPerStatus ==
    \A s \in StatusValues :
        LET steps == CallsOf("AddStep", s)
            cbs == CallsOf("AddCallback", s)
            tos == CallsOf("AddTimeout", s)
        IN /\ (s \in DOMAIN consumers <=> Len(steps) >= 1)
           /\ \A i \in DOMAIN steps : steps[i].panicked <=> i >= 2
           /\ Len(steps) >= 1 => consumers[s].consumer = steps[1].fn
           /\ \A i \in DOMAIN cbs : ~cbs[i].panicked
           /\ (s \in DOMAIN callback <=> Len(cbs) >= 1)
           /\ Len(cbs) >= 1 => callback[s] = [i \in DOMAIN cbs |-> cbs[i].fn]
           /\ \A i \in DOMAIN tos : ~tos[i].panicked
           /\ (s \in DOMAIN timeouts <=> Len(tos) >= 1)
           /\ Len(tos) >= 1 => timeouts[s].transitions = [i \in DOMAIN tos |-> tos[i].fn]

\* A second AddStep, with another function, was made for a status that also
\* has a callback.
C10_Witness ==
    \E s \in StatusValues :
        /\ Len(CallsOf("AddStep", s)) = 2
        /\ CallsOf("AddStep", s)[1].fn # CallsOf("AddStep", s)[2].fn
        /\ Len(CallsOf("AddCallback", s)) = 1

\* C11: every WithOptions call on a timeout that names a parallel count or a
\* lag panicked and the others did not; the options of every configured
\* timeout are those of the last call that did not panic (the zero options
\* when there is none), which name neither a parallel count nor a lag.
C11_TimeoutOptions ==
    \A s \in StatusValues :
        LET calls == CallsOf("TimeoutWithOptions", s)
            okay == SelectSeq(calls, LAMBDA c : ~c.panicked)
            last == IF Len(okay) = 0 THEN ZeroTimeouts ELSE okay[Len(okay)].opts
        IN /\ \A i \in DOMAIN calls :
                 calls[i].panicked <=>
                     (calls[i].opts.parallelCount # 0 \/ calls[i].opts.lag # 0)
           /\ \A i \in DOMAIN okay :
                 okay[i].opts.parallelCount = 0 /\ okay[i].opts.lag = 0
           /\ s \in DOMAIN timeouts =>
                 /\ timeouts[s].pollingFrequency = last.pollingFrequency
                 /\ timeouts[s].errBackOff = last.errBackOff
                 /\ timeouts[s].lagAlert = last.lagAlert
                 /\ timeouts[s].pauseAfterErrCount = last.pauseAfterErrCount
                 /\ DOMAIN timeouts[s] = DOMAIN ZeroTimeouts

\* A timeout was given options that were accepted, and then options with a
\* lag, which were rejected.
C11_Witness ==
    \E s \in DOMAIN timeouts :
        LET calls == CallsOf("TimeoutWithOptions", s) IN
        /\ Len(calls) = 2
        /\ ~calls[1].panicked /\ calls[1].opts.pollingFrequency = 1
        /\ calls[2].panicked /\ calls[2].opts.lag = 1 /\ calls[2].opts.parallelCount = 0
        /\ timeouts[s].pollingFrequency = 1

\* C12: Build returns a workflow only when the event streamer, the record
\* store and the role scheduler are present and, when a timeout has been
\* added, the timeout store is too.
C12_BuildRequiresDependencies ==
    built = "returned" =>
        /\ deps.eventStreamer
        /\ deps.recordStore
        /\ deps.scheduler
        /\ DOMAIN timeouts # {} => deps.timeoutStore

\* C18: an AddConnector call panicked exactly when an earlier call had used
\* its name, the connector configurations are those of the calls that did
\* not panic, in order, each with the parallel count of the last WithOptions
\* call on it (0 when there is none), and no two of them share a name.
C18_ConnectorNamesUnique ==
    LET calls == SelectSeq(log, LAMBDA c : c.op = "AddConnector")
        okay == SelectSeq(calls, LAMBDA c : ~c.panicked)
        opts(name) == SelectSeq(log, LAMBDA c : c.op = "ConnectorWithOptions" /\ c.fn = name)
        count(name) == IF Len(opts(name)) = 0 THEN 0
                       ELSE opts(name)[Len(opts(name))].parallelCount
    IN /\ \A i \in DOMAIN calls :
             calls[i].panicked <=> \E j \in 1..(i - 1) : calls[j].fn = calls[i].fn
       /\ connectorConfigs =
             [i \in DOMAIN okay |-> [name |-> okay[i].fn, parallelCount |-> count(okay[i].fn)]]
       /\ \A i, j \in DOMAIN connectorConfigs :
             connectorConfigs[i].name = connectorConfigs[j].name => i = j

\* A connector is configured, sharded by WithOptions, and a call that repeated
\* its name panicked.
C18_Witness ==
    /\ Len(connectorConfigs) = 1
    /\ connectorConfigs[1].parallelCount = MaxParallel
    /\ \E i \in DOMAIN log :
          /\ log[i].op = "AddConnector"
          /\ log[i].panicked
          /\ log[i].fn = connectorConfigs[1].name

\* C13: a processor that waits in Await for its role reports Idle.
C13_IdleWhileAwaiting ==
    \A r \in replicas : \A p \in Launched(r) :
        At(r, p, "await") => Reported(r, p) = StateIdle

\* C14: a processor in the backoff that follows an error of the process
\* function holds its lease, and no other replica holds the role or executes
\* its process function; entering the backoff and staying in it leave the
\* lease alone; the backoff is left only to the top of the loop (where the
\* role is requested again), with the lease released.
C14_LeaseKeptDuringBackoff ==
    /\ [](\A r \in replicas : \A p \in Launched(r) :
            At(r, p, "backoff") =>
                /\ <<Role(p), r>> \in leases
                /\ \A r2 \in replicas \ {r} :
                      <<Role(p), r2>> \notin leases /\ ~InProcess(r2, p))
    /\ [][\A r \in replicas : \A p \in Launched(r) :
            /\ (pc[r][p] = "process" /\ pc'[r][p] = "backoff") => leases' = leases
            /\ (pc[r][p] = "backoff" /\ pc'[r][p] = "backoff") => <<Role(p), r>> \in leases'
            /\ (pc[r][p] = "backoff" /\ pc'[r][p] # "backoff") =>
                  (pc'[r][p] = "top" /\ <<Role(p), r>> \notin leases')
            /\ (pc[r][p] # "backoff" /\ pc'[r][p] = "backoff") => pc[r][p] = "process"]_vars

\* A replica is in the backoff, holding the lease, while another replica
\* waits in Await for the same role.
C14_Witness ==
    \E r1, r2 \in replicas : \E p \in Launched(r1) :
        /\ r1 # r2
        /\ At(r1, p, "backoff")
        /\ ctx[r1] = "live"
        /\ <<Role(p), r1>> \in leases
        /\ At(r2, p, "await")

\* C16: after a cancellation error of the process function the loop is at its
\* top, with no backoff or sleep between, and the processor does not report
\* Shutdown; its next step is the call of Await when the root context is
\* live and the exit, at the top of the loop, when it is cancelled; the loop
\* never exits from the process function itself.
C16_LeaseCancelIsRetry ==
    /\ [](\A r \in replicas : \A p \in retrying[r] :
            At(r, p, "top") /\ Reported(r, p) = StateRunning)
    /\ [][\A r \in replicas : \A p \in retrying[r] :
            pc'[r][p] # pc[r][p] =>
                \/ /\ ctx[r] = "live"
                   /\ pc'[r][p] = "await"
                   /\ internalState'[r][Role(p)] = StateRunning
                \/ /\ ctx[r] = "cancelled"
                   /\ pc'[r][p] = "returnedTop"
                   /\ internalState'[r][Role(p)] = StateShutdown]_vars
    /\ [][\A r \in replicas : \A p \in Launched(r) :
            /\ (pc[r][p] = "process" /\ pc'[r][p] # "process") =>
                  (pc'[r][p] \in {"top", "backoff"} /\ internalState'[r][Role(p)] = StateRunning)
            /\ (pc[r][p] = "process" /\ retrying'[r] # retrying[r] /\ pc'[r][p] # "process") =>
                  pc'[r][p] = "top"]_vars

\* The process function has returned a cancellation error with the root
\* context live: the loop is at its top and the processor reports Running.
C16_Witness ==
    \E r \in replicas : \E p \in retrying[r] :
        /\ ctx[r] = "live"
        /\ At(r, p, "top")
        /\ Reported(r, p) = StateRunning

\* C19: a processor that requests its role, or whose loop has returned, holds
\* no lease: the release function of every lease it obtained has been called.
C19_LeaseReleased ==
    \A r \in replicas : \A p \in Launched(r) :
        pc[r][p] \in {"await"} \cup Returned => <<Role(p), r>> \notin leases

\* C15: a processor that is in the sleep after a failed Await, or in the
\* backoff after a failed process call, when the root context is cancelled
\* reaches Shutdown without any timer having to expire.
C15_WaitsObserveCancellation ==
    \A r \in 1..MaxReplicas : \A p \in AllProcessors :
        (/\ r \in replicas
         /\ ctx[r] = "cancelled"
         /\ p \in Launched(r)
         /\ pc[r][p] \in {"sleep", "backoff"})
            ~> (r \in replicas /\ Reported(r, p) = StateShutdown)

\* C17: the continuation returns an error exactly when Send or Close failed,
\* and nil only with the event sent and the producer closed; every record the
\* store has committed has its event among those sent; update returns nil
\* exactly when the store committed the write.
C17_ContinuationFailsWithPublish ==
    /\ [](/\ upc = "continued" =>
              /\ err <=> failed # ""
              /\ ~err => (events # << >> /\ events[Len(events)] = SentEvent(wr))
          /\ \A run \in DOMAIN records :
                records[run].ID # 0 =>
                    \E i \in DOMAIN events :
                        /\ events[i].id = records[run].ID
                        /\ events[i].status = records[run].Status
                        /\ events[i].headers[HeaderRunID] = run
          /\ upc = "updated" => (err <=> records[wr.RunID] # wr))
    /\ [][(upc # "continued" /\ upc' = "continued" /\ ~err') =>
            (upc = "close" /\ producers' = <<producers[1], producers[2] + 1>>)]_vars

\* update has returned an error for a write whose event was sent and whose
\* producer then failed to close: the record was not committed.
C17_Witness ==
    /\ upc = "updated"
    /\ err
    /\ failed = "close"
    /\ events # << >>
    /\ events[Len(events)] = SentEvent(wr)
    /\ records[wr.RunID].Status < wr.Status

\* C20: whenever the continuation is not running, every producer update has
\* created has been closed.
C20_ProducersClosed ==
    upc \in {"idle", "update", "continued", "updated"} => producers[1] = producers[2]

\* C21: every processor is started at most once; a Stop made before Run has
\* cancelled nothing and is not waiting, and the first Run after it sets the
\* context and starts every processor; a Run made after Stop has returned
\* changes nothing of the workflow: no processor is started, the context
\* stays cancelled and no state is written; a processor that reports
\* Shutdown reports Shutdown ever after.
C21_NoRestartAfterStop ==
    /\ [](\A r \in replicas :
            /\ \A p \in DOMAIN launches[r] : launches[r][p] = 1
            /\ stoppedEarly[r] =>
                  /\ ctx[r] = "nil" /\ ~once[r] /\ Launched(r) = {}
                  /\ stopPc[r] = "idle" /\ ~stopReturned[r]
            /\ ranAfterStop[r] => (ctx[r] = "cancelled" /\ once[r] /\ ctxSets[r] = 1))
    /\ [][\A r \in replicas :
            /\ (stoppedEarly[r] /\ ~stoppedEarly'[r]) =>
                  /\ ctx'[r] # "nil"
                  /\ launches'[r] = GoStatements(consumers, timeouts,
                                                 workflowConnectorConfigs, connectorConfigs)
                  /\ \A p \in DOMAIN launches'[r] : At(r, Append(p, 1), "go")'
            /\ (~ranAfterStop[r] /\ ranAfterStop'[r]) =>
                  /\ stopReturned[r]
                  /\ UNCHANGED <<ctx, ctxSets, once, launches, pc, seen, internalState, leases>>
            /\ \A p \in Launched(r) :
                  Reported(r, p) = StateShutdown => internalState'[r][Role(p)] = StateShutdown]_vars

\* Run has been called on a replica after its Stop returned: its processors,
\* which had been running, all report Shutdown; on another replica Stop
\* has been called before any Run.
C21_Witness ==
    \E r1, r2 \in replicas :
        /\ ranAfterStop[r1]
        /\ stopReturned[r1]
        /\ Launched(r1) # {}
        /\ \A p \in Launched(r1) : pc[r1][p] \in Returned /\ Reported(r1, p) = StateShutdown
        /\ stoppedEarly[r2]

====
